---- MODULE Spec2Model ----
(***************************************************************************)
(* Model of the serial link layer of morTimmy's HardwareController         *)
(* (src/raspberrypi/morTimmy/hardware_controller.py): the message codec    *)
(* (__packMessage / __unpackMessage), the frame codec (__packFrame /       *)
(* __unpackFrame), the byte-at-a-time receive loop (recvMessage), the      *)
(* sender (sendMessage) and the delivery queue (recvMessageQueue).         *)
(*                                                                         *)
(* Byte strings are sequences of numbers 0..255.  The comparisons          *)
(* `byte == chr(FRAME_FLAG)` are read with byte-string semantics (a        *)
(* one-character str is one byte), the semantics the rest of the           *)
(* repository (print statements) is written for.                           *)
(*                                                                         *)
(* A 32-bit unsigned value that comes out of struct.unpack or crc32 is     *)
(* held as the pair <<low 16 bits, high 16 bits>>, because the model       *)
(* checker's integers are 32-bit signed.                                   *)
(*                                                                         *)
(* Five specifications share the variables: Spec (a sender and a receiver  *)
(* over a looped-back line), CodecSpec (the codec methods called           *)
(* directly), RecvSpec (recvMessage against any byte stream and a port     *)
(* that may be closed), SendSpec (two threads in sendMessage) and          *)
(* LegacySpec (sendCommand of hardware_control.py).                        *)
(***************************************************************************)
EXTENDS Integers, Sequences, FiniteSets, TLC

\* ------------------------------------------------------------ definitions
FRAME_FLAG == 12
FRAME_ESC == 27
MODULE_MOTOR == 50
CMD_MOTOR_FORWARD == 100

\* struct.calcsize('<LLBBLL')
MESSAGE_SIZE == 18

\* ------------------------------------------------------------ 32-bit words
\* a Python int n (0 <= n < 2^31 here) as a 32-bit word
Word(n) == <<n % 65536, n \div 65536>>

\* struct.pack('<L', w): four bytes, least significant first
PackL(w) == <<w[1] % 256, w[1] \div 256, w[2] % 256, w[2] \div 256>>

\* struct.unpack('<L', b)
UnpackL(b) == <<b[1] + 256 * b[2], b[3] + 256 * b[4]>>

\* ------------------------------------------------------------ zlib.crc32
\* The CRC register is the set of the positions (0 = least significant) of
\* its one bits.
Bits(n, width) == {i \in 0..(width - 1) : (n \div (2 ^ i)) % 2 = 1}

XorBits(a, b) == {i \in 0..31 : (i \in a) # (i \in b)}

\* reflected CRC-32 polynomial 0xEDB88320
CRC_POLY == {5, 8, 9, 15, 19, 20, 21, 23, 24, 26, 27, 29, 30, 31}

CrcShift(reg) ==
    LET shifted == {i \in 0..30 : (i + 1) \in reg}
    IN  IF 0 \in reg THEN XorBits(shifted, CRC_POLY) ELSE shifted

\* the eight shifts one byte takes
CrcShift8(reg) ==
    CrcShift(CrcShift(CrcShift(CrcShift(CrcShift(CrcShift(CrcShift(CrcShift(reg))))))))

\* zlib's table: entry b is the register after the byte b alone
CrcTable == [b \in 0..255 |-> CrcShift8(Bits(b, 8))]

\* the number held in the n bits of s from position lo upwards
RECURSIVE BitsValue(_, _, _)
BitsValue(s, lo, n) ==
    IF n = 0 THEN 0
    ELSE (IF lo \in s THEN 1 ELSE 0) + 2 * BitsValue(s, lo + 1, n - 1)

\* crc = table[(crc ^ byte) & 0xff] ^ (crc >> 8)
CrcByte(reg, byte) ==
    XorBits({i \in 0..23 : (i + 8) \in reg},
            CrcTable[BitsValue(XorBits(reg, Bits(byte, 8)), 0, 8)])

\* the register after bytes[i..]; next is compared with itself so that it is
\* evaluated before the recursion goes on, which keeps the evaluation shallow
RECURSIVE CrcUpdate(_, _, _)
CrcUpdate(reg, bytes, i) ==
    IF i > Len(bytes) THEN reg
    ELSE LET next == CrcByte(reg, bytes[i])
         IN  IF next = next THEN CrcUpdate(next, bytes, i + 1) ELSE {}

\* crc32(bytes) & 0xffffffff, as a 32-bit word
crc32(bytes) ==
    LET reg == XorBits(0..31, CrcUpdate(0..31, bytes, 1))
    IN  <<BitsValue(reg, 0, 16), BitsValue(reg, 16, 16)>>

\* ------------------------------------------------------------ message codec
\* struct.pack('<LLBBLL', ...): the four L fields are 32-bit words
StructPack(f1, f2, f3, f4, f5, f6) ==
    PackL(f1) \o PackL(f2) \o <<f3, f4>> \o PackL(f5) \o PackL(f6)

\* __packMessage with the checksum pass run before the counter is incremented
packMessageStaleChecksum(messageID, module, commandType, data, acknowledgeID) ==
    LET zeroed == StructPack(Word(messageID - 1), acknowledgeID, module,
                             commandType, data, Word(0))
    IN  StructPack(Word(messageID), acknowledgeID, module,
                   commandType, data, crc32(zeroed))

\* the body of __packMessage once self.__lastMessageID has been incremented
\* to messageID (a Python int); data and acknowledgeID are 32-bit words
packMessage(messageID, module, commandType, data, acknowledgeID) ==
    LET zeroed == StructPack(Word(messageID), acknowledgeID, module,
                             commandType, data, Word(0))
        checksum == crc32(zeroed)
    IN  StructPack(Word(messageID), acknowledgeID, module,
                   commandType, data, checksum)

\* the items recvMessageQueue holds: a dict, one of two strings, or None
ChecksumFailed == [str |-> "Invalid: Checksum failed"]
ErrorPutting == [str |-> "error putting messg to queue"]
InvalidFrame == [str |-> "Invalid"]
None == [none |-> TRUE]

SubBytes(b, from, n) == [k \in 1..n |-> b[from + k - 1]]

\* __unpackMessage without the comparison of the two checksums
unpackMessageItemUnchecked(message) ==
    IF Len(message) # MESSAGE_SIZE
    THEN ErrorPutting
    ELSE [messageID |-> UnpackL(SubBytes(message, 1, 4)),
          acknowledgeID |-> UnpackL(SubBytes(message, 5, 4)),
          module |-> message[9], commandType |-> message[10],
          data |-> UnpackL(SubBytes(message, 11, 4)),
          checksum |-> UnpackL(SubBytes(message, 15, 4))]

\* __unpackMessage comparing the low halves of the two checksums only
unpackMessageItemLowHalf(message) ==
    IF Len(message) # MESSAGE_SIZE
    THEN ErrorPutting
    ELSE LET recvChecksum == UnpackL(SubBytes(message, 15, 4))
             calcChecksum == crc32(SubBytes(message, 1, 14) \o <<0, 0, 0, 0>>)
         IN  IF recvChecksum[1] = calcChecksum[1]
             THEN unpackMessageItemUnchecked(message)
             ELSE ChecksumFailed

\* __unpackMessage(message): the item it puts on recvMessageQueue
unpackMessageItem(message) ==
    IF Len(message) # MESSAGE_SIZE
    THEN ErrorPutting              \* struct.error, caught by except Exception
    ELSE LET messageID == UnpackL(SubBytes(message, 1, 4))
             acknowledgeID == UnpackL(SubBytes(message, 5, 4))
             module == message[9]
             commandType == message[10]
             data == UnpackL(SubBytes(message, 11, 4))
             recvChecksum == UnpackL(SubBytes(message, 15, 4))
             calcChecksum == crc32(StructPack(messageID, acknowledgeID, module,
                                              commandType, data, Word(0)))
         IN  IF recvChecksum = calcChecksum
             THEN [messageID |-> messageID, acknowledgeID |-> acknowledgeID,
                   module |-> module, commandType |-> commandType,
                   data |-> data, checksum |-> recvChecksum]
             ELSE ChecksumFailed

\* __unpackMessage without the except clause: struct.error leaves nothing queued
unpackMessageUncaught(queue, message) ==
    IF Len(message) # MESSAGE_SIZE THEN queue
    ELSE Append(queue, unpackMessageItem(message))

\* __unpackMessage(message): the queue after it; it returns None
unpackMessage(queue, message) == Append(queue, unpackMessageItem(message))

\* ------------------------------------------------------------ frame codec
RECURSIVE Escape(_, _)
Escape(message, i) ==
    IF i > Len(message) THEN <<>>
    ELSE (IF message[i] = FRAME_ESC \/ message[i] = FRAME_FLAG
          THEN <<FRAME_ESC, message[i]>>
          ELSE <<message[i]>>) \o Escape(message, i + 1)

\* __packFrame escaping FRAME_FLAG only
RECURSIVE EscapeFlagOnly(_, _)
EscapeFlagOnly(message, i) ==
    IF i > Len(message) THEN <<>>
    ELSE (IF message[i] = FRAME_FLAG
          THEN <<FRAME_ESC, message[i]>>
          ELSE <<message[i]>>) \o EscapeFlagOnly(message, i + 1)

packFrameFlagOnly(message) ==
    <<FRAME_FLAG>> \o EscapeFlagOnly(message, 1) \o <<FRAME_FLAG>>

\* __packFrame(message)
packFrame(message) == <<FRAME_FLAG>> \o Escape(message, 1) \o <<FRAME_FLAG>>

\* the for loop of __unpackFrame from byte i on
RECURSIVE UnpackLoop(_, _, _, _)
UnpackLoop(frame, i, nextByteValid, message) ==
    IF i > Len(frame) THEN message
    ELSE IF nextByteValid
         THEN UnpackLoop(frame, i + 1, FALSE, Append(message, frame[i]))
    ELSE IF frame[i] = FRAME_ESC
         THEN UnpackLoop(frame, i + 1, TRUE, message)
    ELSE IF frame[i] # FRAME_FLAG
         THEN UnpackLoop(frame, i + 1, FALSE, Append(message, frame[i]))
    ELSE UnpackLoop(frame, i + 1, FALSE, message)

\* the test of line 329 with `and` for `or`
FrameFlagInvalidBoth(frame) ==
    /\ Len(frame) > 0
    /\ frame[1] # FRAME_FLAG
    /\ frame[Len(frame)] # FRAME_FLAG


\* frame[:1] != chr(FRAME_FLAG) or frame[-1:] != chr(FRAME_FLAG)
FrameFlagInvalid(frame) ==
    \/ Len(frame) = 0
    \/ frame[1] # FRAME_FLAG
    \/ frame[Len(frame)] # FRAME_FLAG

\* __unpackFrame stripping the two delimiters and leaving the escapes in
unpackFrameKeepsEscapes(frame) ==
    IF FrameFlagInvalid(frame) THEN <<>> ELSE SubSeq(frame, 2, Len(frame) - 1)

\* __unpackFrame(frame): the message it returns
unpackFrame(frame) ==
    IF FrameFlagInvalid(frame) THEN <<>> ELSE UnpackLoop(frame, 1, FALSE, <<>>)

\* __unpackFrame(frame): the queue after it
unpackFrameQueue(queue, frame) ==
    IF FrameFlagInvalid(frame) THEN Append(queue, InvalidFrame) ELSE queue

\* ------------------------------------------------------------ bounds
\* calls of sendMessage that encode a message
MaxSend == 2
\* stray bytes on the line before the first frame
MaxNoise == 1
\* frames of one run that the line damages
MaxFaults == 1
\* length of the byte strings handed to the frame codec directly
MaxLen == 4

\* ------------------------------------------------------------ state
VARIABLES
    isConnected,        \* HardwareController.isConnected
    lastMessageID,      \* HardwareController.__lastMessageID
    recvMessageQueue,   \* self.recvMessageQueue, oldest item first
    serialIn,           \* bytes the serial line holds for serialPort.read
    pc,                 \* "idle": no call in progress; "reading": in recvMessage's loop
    recvLocals,         \* recvMessage's message, foundStartOfFrame, foundEscFlag
    sent,               \* history: the records __packMessage returned, in order
    faults,             \* history: what the line did to each frame written
    frames,             \* history: each frame recvMessage completed
    taken,              \* history: the items the consumer got, in order
    escLost,            \* history: an empty read met a pending escape
    unit,               \* a direct call of one method, see CodecSpec
    portOpen,           \* the serial port is open (serialPort.close() not called)
    threads             \* the threads inside sendMessage, see SendSpec

vars == <<isConnected, lastMessageID, recvMessageQueue, serialIn, pc, recvLocals,
          sent, faults, frames, taken, escLost, unit, portOpen, threads>>

\* what only the other specifications change
others == <<unit, portOpen, threads>>

history == <<sent, faults, frames, taken, escLost>>

\* the arguments sendMessage is called with: (module, commandType, data,
\* acknowledgeID); the second carries raw FRAME_ESC and FRAME_FLAG bytes
Commands ==
    { <<MODULE_MOTOR, CMD_MOTOR_FORWARD, Word(255), Word(0)>>,
      <<FRAME_ESC, CMD_MOTOR_FORWARD, Word(FRAME_FLAG), Word(1)>> }

\* a stray byte that is no delimiter
NoiseBytes == {65, FRAME_ESC}

\* what the line may do to a frame
LineFaults == {"none", "lostOpen", "lostClose", "flipped", "lostByte"}

\* recvMessage's locals as it enters the loop (lines 398-401)
FreshLocals ==
    [message |-> <<>>, foundStartOfFrame |-> FALSE,
     foundEndOfFrame |-> FALSE, foundEscFlag |-> FALSE]

Init ==
    /\ isConnected = FALSE
    /\ lastMessageID = 0
    /\ recvMessageQueue = <<>>
    /\ serialIn = <<>>
    /\ pc = "idle"
    /\ recvLocals = FreshLocals
    /\ sent = <<>>
    /\ faults = <<>>
    /\ frames = <<>>
    /\ taken = <<>>
    /\ escLost = FALSE
    /\ unit = [op |-> "none"]
    /\ portOpen = TRUE
    /\ threads = <<>>

\* ------------------------------------------------------------ the serial line
RemoveAt(s, i) == SubSeq(s, 1, i - 1) \o SubSeq(s, i + 1, Len(s))

\* the frame as it arrives at the far end of a looped-back line
OnTheLine(fault, packedFrame) ==
    CASE fault = "none" -> packedFrame
      [] fault = "lostOpen" -> Tail(packedFrame)
      [] fault = "lostClose" -> SubSeq(packedFrame, 1, Len(packedFrame) - 1)
      [] fault = "flipped" ->
            [packedFrame EXCEPT ![2] = (packedFrame[2] + 128) % 256]
      [] fault = "lostByte" -> RemoveAt(packedFrame, 2)

\* self.serialPort.write(packedFrame)
serialWrite(line, fault, packedFrame) == line \o OnTheLine(fault, packedFrame)

\* a stray byte reaches the receiver before the first frame
lineNoise ==
    /\ sent = <<>>
    /\ Len(serialIn) < MaxNoise
    /\ \E b \in NoiseBytes : serialIn' = Append(serialIn, b)
    /\ UNCHANGED <<isConnected, lastMessageID, recvMessageQueue, pc, recvLocals,
                   history, others>>

\* ------------------------------------------------------------ connection
\* initialize() starting the message counter again
initializeResetsID ==
    /\ pc = "idle"
    /\ isConnected' = FALSE
    /\ lastMessageID' = 0
    /\ UNCHANGED <<recvMessageQueue, serialIn, pc, recvLocals, history, others>>

\* initialize(): the first statement of the try block applies % to the None
\* that logging.info returns, the TypeError is caught by `except Exception`
\* (line 183) and line 185 runs; the port is never opened
initialize ==
    /\ pc = "idle"
    /\ isConnected' = FALSE
    /\ UNCHANGED <<lastMessageID, recvMessageQueue, serialIn, pc, recvLocals,
                   history, others>>

\* the caller sets the public attributes itself: a port and isConnected = True
setConnected ==
    /\ pc = "idle"
    /\ ~isConnected
    /\ isConnected' = TRUE
    /\ UNCHANGED <<lastMessageID, recvMessageQueue, serialIn, pc, recvLocals,
                   history, others>>

\* ------------------------------------------------------------ sendMessage
\* sendMessage without the test of isConnected (lines 359-361)
sendMessageUnguarded ==
    /\ pc = "idle"
    /\ lastMessageID < MaxSend
    /\ \E c \in Commands :
         LET packedMessage == packMessage(lastMessageID + 1, c[1], c[2], c[3], c[4])
         IN  /\ lastMessageID' = lastMessageID + 1
             /\ serialIn' = serialWrite(serialIn, "none", packFrame(packedMessage))
             /\ sent' = Append(sent, packedMessage)
             /\ faults' = Append(faults, "none")
    /\ UNCHANGED <<isConnected, recvMessageQueue, pc, recvLocals,
                   frames, taken, escLost, others>>

sendMessage ==
    /\ pc = "idle"
    /\ IF ~isConnected
       THEN UNCHANGED vars
       ELSE /\ lastMessageID < MaxSend
            /\ \E c \in Commands :
                 LET packedMessage == packMessage(lastMessageID + 1, c[1], c[2], c[3], c[4])
                     packedFrame == packFrame(packedMessage)
                 IN  \E fault \in LineFaults :
                       /\ fault # "none" =>
                            Cardinality({k \in 1..Len(faults) : faults[k] # "none"}) < MaxFaults
                       /\ lastMessageID' = lastMessageID + 1
                       /\ serialIn' = serialWrite(serialIn, fault, packedFrame)
                       /\ sent' = Append(sent, packedMessage)
                       /\ faults' = Append(faults, fault)
            /\ UNCHANGED <<isConnected, recvMessageQueue, pc, recvLocals,
                           frames, taken, escLost, others>>

\* ------------------------------------------------------------ recvMessage
\* the loop's body with a first test that does not look at foundEscFlag: a
\* delimiter ends the frame even after an escape
recvByteStepFlagEnds(l, recvByte) ==
    IF l.foundStartOfFrame /\ recvByte = <<FRAME_FLAG>>
    THEN [l EXCEPT !.foundEndOfFrame = TRUE]
    ELSE IF recvByte = <<FRAME_FLAG>> /\ ~l.foundStartOfFrame
    THEN [l EXCEPT !.foundStartOfFrame = TRUE]
    ELSE IF l.foundStartOfFrame /\ recvByte = <<FRAME_ESC>> /\ ~l.foundEscFlag
    THEN [l EXCEPT !.foundEscFlag = TRUE]
    ELSE IF l.foundStartOfFrame /\ l.foundEscFlag
    THEN [l EXCEPT !.foundEscFlag = FALSE, !.message = l.message \o recvByte]
    ELSE IF l.foundStartOfFrame /\ ~l.foundEscFlag
    THEN [l EXCEPT !.message = l.message \o recvByte]
    ELSE l

\* one pass of the while loop's body on what read(1) returned: a string of one
\* byte, or the empty string when no byte has arrived yet
recvByteStep(l, recvByte) ==
    IF l.foundStartOfFrame /\ recvByte = <<FRAME_FLAG>> /\ ~l.foundEscFlag
    THEN [l EXCEPT !.foundEndOfFrame = TRUE]
    ELSE IF recvByte = <<FRAME_FLAG>> /\ ~l.foundStartOfFrame
    THEN [l EXCEPT !.foundStartOfFrame = TRUE]
    ELSE IF l.foundStartOfFrame /\ recvByte = <<FRAME_ESC>> /\ ~l.foundEscFlag
    THEN [l EXCEPT !.foundEscFlag = TRUE]
    ELSE IF l.foundStartOfFrame /\ l.foundEscFlag
    THEN [l EXCEPT !.foundEscFlag = FALSE, !.message = l.message \o recvByte]
    ELSE IF l.foundStartOfFrame /\ ~l.foundEscFlag
    THEN [l EXCEPT !.message = l.message \o recvByte]
    ELSE l

\* lines 421-422: __unpackMessage puts its item and returns None, and
\* recvMessage puts that return value too
recvDeliver(queue, msg) == Append(unpackMessage(queue, msg), None)

\* the caller enters recvMessage
recvMessage ==
    /\ pc = "idle"
    /\ IF ~isConnected
       THEN UNCHANGED vars
       ELSE /\ pc' = "reading"
            /\ recvLocals' = FreshLocals
            /\ UNCHANGED <<isConnected, lastMessageID, recvMessageQueue, serialIn,
                           history, others>>

\* the loop's body, up to the return when it read the closing FRAME_FLAG
recvLoop(recvByte, rest) ==
    LET l == recvByteStep(recvLocals, recvByte)
    IN  /\ serialIn' = rest
        /\ escLost' = (escLost \/ (recvByte = <<>> /\ recvLocals.foundEscFlag))
        /\ IF l.foundEndOfFrame
           THEN /\ recvMessageQueue' = recvDeliver(recvMessageQueue, l.message)
                /\ frames' = Append(frames,
                      [message |-> l.message,
                       items |-> SubSeq(recvMessageQueue', Len(recvMessageQueue) + 1,
                                        Len(recvMessageQueue'))])
                /\ pc' = "idle"
                /\ recvLocals' = FreshLocals
           ELSE /\ recvLocals' = l
                /\ UNCHANGED <<recvMessageQueue, frames, pc>>
        /\ UNCHANGED <<isConnected, lastMessageID, sent, faults, taken, others>>

\* serialPort.read(1) returns the next byte
readByte ==
    /\ pc = "reading"
    /\ portOpen
    /\ serialIn # <<>>
    /\ recvLoop(<<Head(serialIn)>>, Tail(serialIn))

\* serialPort.read(1) returns the empty string: no byte within the timeout
readNothing ==
    /\ pc = "reading"
    /\ portOpen
    /\ recvLoop(<<>>, serialIn)

\* ------------------------------------------------------------ the consumer
\* a queue that hands out the newest item
getNewest(queue) ==
    [item |-> queue[Len(queue)], rest |-> SubSeq(queue, 1, Len(queue) - 1)]

\* queue.Queue.get(): the item it returns and the queue it leaves
get(queue) == [item |-> Head(queue), rest |-> Tail(queue)]

take ==
    /\ pc = "idle"
    /\ recvMessageQueue # <<>>
    /\ taken' = Append(taken, get(recvMessageQueue).item)
    /\ recvMessageQueue' = get(recvMessageQueue).rest
    /\ UNCHANGED <<isConnected, lastMessageID, serialIn, pc, recvLocals,
                   sent, faults, frames, escLost, others>>

Next ==
    \/ lineNoise
    \/ initialize
    \/ setConnected
    \/ sendMessage
    \/ recvMessage
    \/ readByte
    \/ readNothing
    \/ take

Spec == Init /\ [][Next]_vars

\* ------------------------------------------------------------ the receiver alone
\* A third specification runs recvMessage on a connected controller against
\* byte streams of any shape, well-framed or not, and lets the owner of the
\* port close it while the loop runs.
MaxStream == 5

StreamBytes == {65, FRAME_FLAG, FRAME_ESC}

\* an opening delimiter followed by more data bytes than a record has
LongFrame == <<FRAME_FLAG>> \o [i \in 1..(MESSAGE_SIZE + 2) |-> 65]

Streams == UNION {[1..n -> StreamBytes] : n \in 0..MaxStream} \cup {LongFrame}

RecvInit ==
    /\ isConnected = TRUE
    /\ lastMessageID = 0
    /\ recvMessageQueue = <<>>
    /\ serialIn \in Streams
    /\ pc = "reading"
    /\ recvLocals = FreshLocals
    /\ sent = <<>>
    /\ faults = <<>>
    /\ frames = <<>>
    /\ taken = <<>>
    /\ escLost = FALSE
    /\ unit = [op |-> "recv", stream |-> serialIn]   \* what the port will deliver
    /\ portOpen = TRUE
    /\ threads = <<>>

\* serialPort.close(), as __del__ calls it (line 190)
closePort ==
    /\ portOpen
    /\ portOpen' = FALSE
    /\ UNCHANGED <<isConnected, lastMessageID, recvMessageQueue, serialIn, pc,
                   recvLocals, history, unit, threads>>

\* a loop that catches the exception of read and goes on to lines 421-422
readClosedDelivers ==
    /\ pc = "reading"
    /\ ~portOpen
    /\ pc' = "idle"
    /\ recvMessageQueue' = recvDeliver(recvMessageQueue, recvLocals.message)
    /\ recvLocals' = FreshLocals
    /\ UNCHANGED <<isConnected, lastMessageID, serialIn, history, others>>

\* serialPort.read(1) on a closed port raises serial.SerialException (port not
\* open); nothing in recvMessage catches it, so it leaves the call from line
\* 404 and lines 421-422 never see the locals (kept here as they were when
\* the exception left)
readClosed ==
    /\ pc = "reading"
    /\ ~portOpen
    /\ pc' = "raised"
    /\ UNCHANGED <<isConnected, lastMessageID, recvMessageQueue, serialIn,
                   recvLocals, history, others>>

RecvNext ==
    \/ recvMessage
    \/ readByte
    \/ readNothing
    \/ closePort
    \/ readClosed

RecvSpec == RecvInit /\ [][RecvNext]_vars

\* ------------------------------------------------------------ two senders
\* A fourth specification has two threads call sendMessage on one connected
\* controller. Nothing in the class takes a lock, so the threads interleave
\* between the reads and the write of self.__lastMessageID: the increment of
\* line 215 is a read and a write, and lines 219 and 232 each read the
\* attribute again.
Threads == {1, 2}

ThreadStart ==
    {[pc |-> "check", args |-> c, tmp |-> 0, checksum |-> Word(0), rawMessage |-> <<>>] :
        c \in Commands}

SendInit ==
    /\ isConnected = TRUE
    /\ lastMessageID = 0
    /\ recvMessageQueue = <<>>
    /\ serialIn = <<>>
    /\ pc = "idle"
    /\ recvLocals = FreshLocals
    /\ sent = <<>>
    /\ faults = <<>>
    /\ frames = <<>>
    /\ taken = <<>>
    /\ escLost = FALSE
    /\ unit = [op |-> "none"]
    /\ portOpen = TRUE
    /\ threads \in [Threads -> ThreadStart]

\* what a step of a thread inside __packMessage leaves alone
packLeaves == <<isConnected, recvMessageQueue, serialIn, pc, recvLocals, history,
                unit, portOpen>>

\* line 359: if not self.isConnected
sendCheck(t) ==
    /\ threads[t].pc = "check"
    /\ threads' = [threads EXCEPT ![t].pc = IF isConnected THEN "load" ELSE "done"]
    /\ UNCHANGED <<lastMessageID, packLeaves>>

\* line 215, self.__lastMessageID += 1: the attribute is read
sendLoad(t) ==
    /\ threads[t].pc = "load"
    /\ threads' = [threads EXCEPT ![t].pc = "store", ![t].tmp = lastMessageID]
    /\ UNCHANGED <<lastMessageID, packLeaves>>

\* line 215: the sum is written back
sendStore(t) ==
    /\ threads[t].pc = "store"
    /\ lastMessageID' = threads[t].tmp + 1
    /\ threads' = [threads EXCEPT ![t].pc = "checksum"]
    /\ UNCHANGED packLeaves

\* lines 217-229: the record with a zero checksum, and its crc32
sendChecksum(t) ==
    LET a == threads[t].args
        zeroed == StructPack(Word(lastMessageID), a[4], a[1], a[2], a[3], Word(0))
    IN  /\ threads[t].pc = "checksum"
        /\ threads' = [threads EXCEPT ![t].pc = "pack", ![t].checksum = crc32(zeroed)]
        /\ UNCHANGED <<lastMessageID, packLeaves>>

\* lines 231-237: the record packed again, with the checksum
sendPack(t) ==
    LET a == threads[t].args
    IN  /\ threads[t].pc = "pack"
        /\ threads' = [threads EXCEPT
                          ![t].pc = "write",
                          ![t].rawMessage = StructPack(Word(lastMessageID), a[4], a[1],
                                                       a[2], a[3], threads[t].checksum)]
        /\ UNCHANGED <<lastMessageID, packLeaves>>

\* lines 367-377: the frame is packed and written to the port
sendWrite(t) ==
    /\ threads[t].pc = "write"
    /\ serialIn' = serialWrite(serialIn, "none", packFrame(threads[t].rawMessage))
    /\ sent' = Append(sent, threads[t].rawMessage)
    /\ faults' = Append(faults, "none")
    /\ threads' = [threads EXCEPT ![t].pc = "done"]
    /\ UNCHANGED <<isConnected, lastMessageID, recvMessageQueue, pc, recvLocals,
                   frames, taken, escLost, unit, portOpen>>

SendNext ==
    \/ \E t \in Threads : sendCheck(t)
    \/ \E t \in Threads : sendLoad(t)
    \/ \E t \in Threads : sendStore(t)
    \/ \E t \in Threads : sendChecksum(t)
    \/ \E t \in Threads : sendPack(t)
    \/ \E t \in Threads : sendWrite(t)

SendSpec == SendInit /\ [][SendNext]_vars

\* ------------------------------------------------------------ the legacy sender
\* hardware_control.py: HardwareController.sendCommand builds one string of
\* fixed width from a command and its data. A fifth specification calls it
\* once on strings up to one character too long. Strings are sequences of
\* one-character strings.
commandSize == 4
dataSize == 12

CommandStrings == UNION {[1..n -> {"W", " "}] : n \in 0..(commandSize + 1)}

\* digits, with a space in front or at the end in some
DataStrings ==
    {[i \in 1..n |-> IF i = k THEN " " ELSE "5"] :
        n \in 0..(dataSize + 1), k \in {0, 1, dataSize}}

LegacyCalls ==
    [op : {"legacy"}, stage : {"start"}, command : CommandStrings,
     data : DataStrings, handed : {<<>>}]

LegacyInit ==
    /\ isConnected = FALSE
    /\ lastMessageID = 0
    /\ recvMessageQueue = <<>>
    /\ serialIn = <<>>
    /\ pc = "idle"
    /\ recvLocals = FreshLocals
    /\ sent = <<>>
    /\ faults = <<>>
    /\ frames = <<>>
    /\ taken = <<>>
    /\ escLost = FALSE
    /\ portOpen = TRUE
    /\ threads = <<>>
    /\ unit \in LegacyCalls

\* str.ljust(width, ' ')
ljust(str, width) ==
    IF Len(str) >= width THEN str
    ELSE str \o [i \in 1..(width - Len(str)) |-> " "]

\* what sendCommand leaves alone
legacyLeaves == <<isConnected, lastMessageID, recvMessageQueue, serialIn, pc,
                  recvLocals, history, portOpen, threads>>

\* sendCommand without the test of len(data)
sendCommandNoDataTest ==
    /\ unit.op = "legacy" /\ unit.stage = "start"
    /\ IF Len(unit.command) > commandSize
       THEN unit' = [unit EXCEPT !.stage = "done"]
       ELSE LET sendString == ljust(unit.command, commandSize)
                              \o ljust(unit.data, dataSize)
            IN  unit' = [unit EXCEPT !.stage = "done",
                                     !.handed = Append(@, sendString)]
    /\ UNCHANGED legacyLeaves

\* sendCommand(command, data); handed is what self.__send has been called
\* with. Inside the class body self.__send is HardwareController.__send (the
\* name is private to the class), which prints the string.
sendCommand ==
    /\ unit.op = "legacy" /\ unit.stage = "start"
    /\ IF Len(unit.command) > commandSize
       THEN unit' = [unit EXCEPT !.stage = "done"]
       ELSE IF Len(unit.data) > dataSize
       THEN unit' = [unit EXCEPT !.stage = "done"]
       ELSE LET sendString == ljust(unit.command, commandSize)
                              \o ljust(unit.data, dataSize)
            IN  unit' = [unit EXCEPT !.stage = "done",
                                     !.handed = Append(@, sendString)]
    /\ UNCHANGED legacyLeaves

LegacyNext == sendCommand

LegacySpec == LegacyInit /\ [][LegacyNext]_vars

\* ------------------------------------------------------------ direct calls
\* A second specification calls the codec methods directly, one method per
\* step, on arguments drawn from the sets below.
Modules == {0, MODULE_MOTOR, FRAME_FLAG, FRAME_ESC, 255}
CommandTypes == {CMD_MOTOR_FORWARD, FRAME_FLAG, 255}
DataWords == {Word(0), Word(255), <<65535, 65535>>,
              <<FRAME_FLAG + 256 * FRAME_FLAG, FRAME_ESC + 256 * FRAME_ESC>>}
AcknowledgeIDs == {Word(0), Word(1), <<65535, 65535>>}
\* values of __lastMessageID before the call: the next ones are 1, FRAME_FLAG,
\* FRAME_ESC, 256 and 65536
LastIDs == {0, FRAME_FLAG - 1, FRAME_ESC - 1, 255, 65535}
FrameBytes == {0, 65, FRAME_FLAG, FRAME_ESC}

ByteStrings == UNION {[1..n -> FrameBytes] : n \in 0..MaxLen}

MessageCalls ==
    [op : {"message"}, stage : {"start"},
     args : Modules \X CommandTypes \X DataWords \X AcknowledgeIDs,
     packed : {<<>>}]

\* a record packed by __packMessage, one bit of it inverted on the way, then
\* handed to __unpackMessage
FlipCalls ==
    [op : {"flip"}, stage : {"start"}, args : Commands,
     bit : 0..(8 * MESSAGE_SIZE - 1), packed : {<<>>}]

\* the byte string with bit number bit inverted (bit 0 the lowest of byte 1)
FlipBit(message, bit) ==
    LET k == bit \div 8 + 1
        m == 2 ^ (bit % 8)
    IN  [message EXCEPT ![k] = IF (@ \div m) % 2 = 1 THEN @ - m ELSE @ + m]

FrameCalls ==
    [op : {"frame"}, stage : {"start"}, message : ByteStrings,
     frame : {<<>>}, out : {<<>>}]

\* byte strings handed to __unpackFrame as they are: any string, and any
\* string between two delimiters
RawFrames ==
    ByteStrings \cup {<<FRAME_FLAG>> \o b \o <<FRAME_FLAG>> : b \in ByteStrings}

UnframeCalls ==
    [op : {"unframe"}, stage : {"framed"}, message : {<<>>},
     frame : RawFrames, out : {<<>>}]

CodecInit ==
    /\ isConnected = FALSE
    /\ lastMessageID \in LastIDs
    /\ recvMessageQueue = <<>>
    /\ serialIn = <<>>
    /\ pc = "idle"
    /\ recvLocals = FreshLocals
    /\ sent = <<>>
    /\ faults = <<>>
    /\ frames = <<>>
    /\ taken = <<>>
    /\ escLost = FALSE
    /\ portOpen = TRUE
    /\ threads = <<>>
    /\ unit \in MessageCalls \cup FlipCalls \cup FrameCalls \cup UnframeCalls
    /\ unit.op \in {"frame", "unframe"} => lastMessageID = 0

callPackMessage ==
    /\ unit.op \in {"message", "flip"} /\ unit.stage = "start"
    /\ lastMessageID' = lastMessageID + 1
    /\ unit' = [unit EXCEPT !.stage = "packed",
                            !.packed = packMessage(lastMessageID + 1, unit.args[1],
                                          unit.args[2], unit.args[3], unit.args[4])]
    /\ UNCHANGED <<isConnected, recvMessageQueue, serialIn, pc, recvLocals, history,
                   portOpen, threads>>

\* the line inverts one bit of the record
flipBit ==
    /\ unit.op = "flip" /\ unit.stage = "packed"
    /\ unit' = [unit EXCEPT !.stage = "flipped", !.packed = FlipBit(unit.packed, unit.bit)]
    /\ UNCHANGED <<isConnected, lastMessageID, recvMessageQueue, serialIn, pc,
                   recvLocals, history, portOpen, threads>>

callUnpackMessage ==
    /\ \/ unit.op = "message" /\ unit.stage = "packed"
       \/ unit.op = "flip" /\ unit.stage = "flipped"
    /\ recvMessageQueue' = unpackMessage(recvMessageQueue, unit.packed)
    /\ unit' = [unit EXCEPT !.stage = "unpacked"]
    /\ UNCHANGED <<isConnected, lastMessageID, serialIn, pc, recvLocals, history,
                   portOpen, threads>>

callPackFrame ==
    /\ unit.op = "frame" /\ unit.stage = "start"
    /\ unit' = [unit EXCEPT !.stage = "framed", !.frame = packFrame(unit.message)]
    /\ UNCHANGED <<isConnected, lastMessageID, recvMessageQueue, serialIn, pc,
                   recvLocals, history, portOpen, threads>>

callUnpackFrame ==
    /\ unit.op \in {"frame", "unframe"} /\ unit.stage = "framed"
    /\ unit' = [unit EXCEPT !.stage = "unframed", !.out = unpackFrame(unit.frame)]
    /\ recvMessageQueue' = unpackFrameQueue(recvMessageQueue, unit.frame)
    /\ UNCHANGED <<isConnected, lastMessageID, serialIn, pc, recvLocals, history,
                   portOpen, threads>>

CodecNext ==
    \/ callPackMessage
    \/ flipBit
    \/ callUnpackMessage
    \/ callPackFrame
    \/ callUnpackFrame

CodecSpec == CodecInit /\ [][CodecNext]_vars

\* ------------------------------------------------------------ properties
DictFields == {"messageID", "acknowledgeID", "module", "commandType", "data", "checksum"}
IsDict(item) == DOMAIN item = DictFields
IsRejection(item) == DOMAIN item = {"str"}

\* every item put on recvMessageQueue so far, in the order the frames completed
RECURSIVE ItemsOf(_, _)
ItemsOf(fs, j) == IF j > Len(fs) THEN <<>> ELSE fs[j].items \o ItemsOf(fs, j + 1)

Delivered == taken \o recvMessageQueue

NoLineFault == \A k \in 1..Len(faults) : faults[k] = "none"

\* the checksum a record carries differs from the CRC of the record with its
\* checksum field zeroed
ChecksumMismatch(m) ==
    UnpackL(SubBytes(m, 15, 4)) # crc32(SubBytes(m, 1, 14) \o <<0, 0, 0, 0>>)

\* the dict that decoding the record m must give
RecordOf(m) ==
    [messageID |-> UnpackL(SubBytes(m, 1, 4)),
     acknowledgeID |-> UnpackL(SubBytes(m, 5, 4)),
     module |-> m[9], commandType |-> m[10],
     data |-> UnpackL(SubBytes(m, 11, 4)),
     checksum |-> UnpackL(SubBytes(m, 15, 4))]

\* C1: when a stream of N valid frames (with stray non-delimiter bytes before
\* the first at most) has been read to its end, recvMessageQueue has received
\* exactly N items, the i-th being the decoded record of the i-th frame.
\* Stated for the runs in which no read came back empty while an escape was
\* pending, so that what C2 is about plays no part.
C1_OneItemPerFrame ==
    (NoLineFault /\ ~escLost /\ pc = "idle" /\ serialIn = <<>>) =>
        /\ Len(Delivered) = Len(sent)
        /\ \A i \in 1..Len(sent) : Delivered[i] = RecordOf(sent[i])

\* C2: a record that holds raw FRAME_FLAG and FRAME_ESC bytes reaches
\* __unpackMessage unchanged however the reads split the frame, empty reads
\* included: on a line without faults the j-th completed frame hands over
\* exactly the j-th record sent.
C2_EscapedBytesSurviveEmptyReads ==
    NoLineFault =>
        \A j \in 1..Len(frames) : j <= Len(sent) /\ frames[j].message = sent[j]

\* C3: once the whole stream has been read, every well-formed frame that
\* followed a damaged one has been delivered as its decoded record.
C3_LaterFramesAreDelivered ==
    (~escLost /\ serialIn = <<>>) =>
        \A k \in 1..Len(sent) :
            (faults[k] = "none" /\ \E d \in 1..(k - 1) : faults[d] # "none") =>
                \E j \in 1..Len(frames) :
                    /\ frames[j].message = sent[k]
                    /\ \E i \in 1..Len(frames[j].items) :
                           frames[j].items[i] = RecordOf(sent[k])

\* C4: __unpackMessage of what __packMessage returned puts one decoded record
\* with the module, commandType, data and acknowledgeID given and the new
\* messageID, never a rejection.
C4_MessageRoundTrip ==
    (unit.op = "message" /\ unit.stage = "unpacked") =>
        /\ Len(recvMessageQueue) = 1
        /\ IsDict(recvMessageQueue[1])
        /\ recvMessageQueue[1].module = unit.args[1]
        /\ recvMessageQueue[1].commandType = unit.args[2]
        /\ recvMessageQueue[1].data = unit.args[3]
        /\ recvMessageQueue[1].acknowledgeID = unit.args[4]
        /\ recvMessageQueue[1].messageID = Word(lastMessageID)
        /\ recvMessageQueue[1].checksum = UnpackL(SubBytes(unit.packed, 15, 4))
        /\ ~ChecksumMismatch(unit.packed)

C4_Witness ==
    /\ unit.op = "message" /\ unit.stage = "unpacked"
    /\ unit.args = <<FRAME_ESC, FRAME_FLAG, <<65535, 65535>>, <<65535, 65535>>>>
    /\ lastMessageID = FRAME_FLAG
    /\ Len(recvMessageQueue) = 1

\* C5: __unpackFrame(__packFrame(M)) = M for every byte string M.
C5_FrameRoundTrip ==
    (unit.op = "frame" /\ unit.stage = "unframed") => unit.out = unit.message

C5_Witness ==
    /\ unit.op = "frame" /\ unit.stage = "unframed"
    /\ unit.message = <<FRAME_ESC, FRAME_FLAG, FRAME_FLAG, FRAME_ESC>>
    /\ unit.out = unit.message

IsSpecial(b) == b = FRAME_FLAG \/ b = FRAME_ESC
SpecialsUpTo(M, i) == Cardinality({k \in 1..i : IsSpecial(M[k])})
\* where byte i of M stands between the delimiters
PlaceOf(M, i) == i + SpecialsUpTo(M, i)

\* C6: the frame __packFrame(M) gives starts and ends with FRAME_FLAG; between
\* them the bytes of M stand in order, each FRAME_FLAG or FRAME_ESC of M with
\* one FRAME_ESC before it, and no other FRAME_FLAG or FRAME_ESC occurs.
C6_FrameIsStuffed ==
    (unit.op = "frame" /\ unit.stage \in {"framed", "unframed"}) =>
        LET M == unit.message
            f == unit.frame
            inner == SubSeq(f, 2, Len(f) - 1)
        IN  /\ Len(f) >= 2
            /\ f[1] = FRAME_FLAG
            /\ f[Len(f)] = FRAME_FLAG
            /\ Len(inner) = Len(M) + SpecialsUpTo(M, Len(M))
            /\ \A i \in 1..Len(M) :
                   /\ inner[PlaceOf(M, i)] = M[i]
                   /\ IsSpecial(M[i]) => inner[PlaceOf(M, i) - 1] = FRAME_ESC
            /\ \A p \in 1..Len(inner) :
                   IsSpecial(inner[p]) =>
                       \E i \in 1..Len(M) :
                           IsSpecial(M[i]) /\ p \in {PlaceOf(M, i) - 1, PlaceOf(M, i)}

C6_Witness ==
    /\ unit.op = "frame" /\ unit.stage = "framed"
    /\ unit.message = <<FRAME_FLAG, 65, FRAME_ESC>>
    /\ unit.frame = <<FRAME_FLAG, FRAME_ESC, FRAME_FLAG, 65, FRAME_ESC, FRAME_ESC,
                      FRAME_FLAG>>

\* C7: the k-th record encoded carries messageID k, whatever calls of
\* sendMessage, recvMessage and initialize came in between.
C7_MessageIDsCountUp ==
    /\ lastMessageID = Len(sent)
    /\ \A k \in 1..Len(sent) : UnpackL(SubBytes(sent[k], 1, 4)) = Word(k)

C7_Witness ==
    /\ Len(sent) >= 2
    /\ Len(frames) >= 1
    /\ ~isConnected

\* C8: a completed frame of 18 bytes whose checksum does not match puts the
\* checksum rejection on the queue and no decoded record.
C8_ChecksumMismatchIsReported ==
    [][Len(frames') > Len(frames) =>
         LET f == frames'[Len(frames')]
         IN  (Len(f.message) = MESSAGE_SIZE /\ ChecksumMismatch(f.message)) =>
                 /\ \E i \in 1..Len(f.items) : f.items[i] = ChecksumFailed
                 /\ \A i \in 1..Len(f.items) : ~IsDict(f.items[i])]_vars

C8_Witness ==
    \E j \in 1..Len(frames) :
        /\ faults = <<"flipped">>
        /\ Len(frames[j].message) = MESSAGE_SIZE
        /\ frames[j].items[1] = ChecksumFailed

\* C9: a completed frame whose message is not 18 bytes long puts a rejection
\* on the queue and no decoded record, recvMessage returns, and the next call
\* of recvMessage starts with an empty buffer and both flags down.
C9_WrongLengthIsRejected ==
    [][/\ Len(frames') > Len(frames) =>
            LET f == frames'[Len(frames')]
            IN  Len(f.message) # MESSAGE_SIZE =>
                    /\ \E i \in 1..Len(f.items) : IsRejection(f.items[i])
                    /\ \A i \in 1..Len(f.items) : ~IsDict(f.items[i])
                    /\ pc' = "idle"
       /\ (pc = "idle" /\ pc' = "reading") => recvLocals' = FreshLocals]_vars

C9_Witness ==
    /\ Len(frames) >= 1
    /\ frames[Len(frames)].message = <<>>
    /\ IsRejection(frames[Len(frames)].items[1])
    /\ pc = "reading"
    /\ recvLocals = FreshLocals

\* C10: the consumer gets the items in the order in which their frames
\* completed, records and rejections alike.
C10_OldestFirst == Delivered = ItemsOf(frames, 1)

C10_Witness ==
    /\ Len(taken) >= 2
    /\ recvMessageQueue # <<>>
    /\ \E i \in 1..Len(taken) : IsDict(taken[i])
    /\ \E i \in 1..Len(taken) : IsRejection(taken[i])

\* ------------------------------------------------------------ C11 .. C20
\* the upper bound a receiver would be configured with: no record is longer
FrameLimit == MESSAGE_SIZE

\* C11: in every reachable state the message buffer of recvMessage holds at
\* most the configured upper bound of bytes (a frame that would exceed it
\* makes the receiver fail and start again from an empty buffer).
C11_BufferWithinLimit == Len(recvLocals.message) <= FrameLimit

\* C12: when two threads have called sendMessage concurrently and both calls
\* are over, the two records written to the port carry different messageIDs
\* and each record's checksum is the crc32 of that record (with the
\* messageID it contains) over a zero checksum field.
C12_ConcurrentSendsAgree ==
    (DOMAIN threads # {} /\ \A t \in DOMAIN threads : threads[t].pc = "done") =>
        /\ UnpackL(SubBytes(sent[1], 1, 4)) # UnpackL(SubBytes(sent[2], 1, 4))
        /\ \A k \in 1..Len(sent) : ~ChecksumMismatch(sent[k])

\* C13: when the port has been closed while recvMessage is in its loop,
\* whether before the opening delimiter, inside a frame or right after an
\* escape, the next step of the receiver ends the loop with the exception of
\* the closed port, and nothing is put on recvMessageQueue for the frame
\* read so far.
C13_ClosedPortEndsTheLoop ==
    [][(pc = "reading" /\ ~portOpen) =>
          /\ pc' = "raised"
          /\ recvMessageQueue' = recvMessageQueue
          /\ frames' = frames]_vars

\* the port was closed after an escape inside a frame that had data already
C13_Witness ==
    /\ pc = "raised"
    /\ recvLocals.foundStartOfFrame
    /\ recvLocals.foundEscFlag
    /\ recvLocals.message # <<>>
    /\ recvMessageQueue = <<>>

\* an escape is pending once bytes 1..i of the frame have been taken in
RECURSIVE Pending(_, _)
Pending(frame, i) ==
    IF i = 0 THEN FALSE
    ELSE IF Pending(frame, i - 1) THEN FALSE
    ELSE frame[i] = FRAME_ESC

UnescapedFlagAt(frame, p) == frame[p] = FRAME_FLAG /\ ~Pending(frame, p - 1)

\* the bytes a run without unescaped delimiters stands for
RECURSIVE Unstuff(_)
Unstuff(run) ==
    IF run = <<>> THEN <<>>
    ELSE IF run[1] = FRAME_ESC
         THEN IF Len(run) = 1 THEN <<>>
              ELSE <<run[2]>> \o Unstuff(SubSeq(run, 3, Len(run)))
    ELSE <<run[1]>> \o Unstuff(Tail(run))

\* the only unescaped delimiters of the frame are its first byte, its last
\* byte and the one at p, which has data on both sides
SplitsAt(frame, p) ==
    /\ Len(frame) >= 5
    /\ {q \in 1..Len(frame) : UnescapedFlagAt(frame, q)} = {1, p, Len(frame)}
    /\ 1 < p /\ p < Len(frame)
    /\ Unstuff(SubSeq(frame, 2, p - 1)) # <<>>
    /\ Unstuff(SubSeq(frame, p + 1, Len(frame) - 1)) # <<>>

\* C14: __unpackFrame, handed a byte string with an unescaped FRAME_FLAG
\* strictly between its first and its last byte, takes that byte as a frame
\* boundary: the message it returns is never the bytes before the delimiter
\* joined with the bytes after it.
C14_InteriorDelimiterSplits ==
    (unit.op = "unframe" /\ unit.stage = "unframed") =>
        \A p \in 1..Len(unit.frame) :
            SplitsAt(unit.frame, p) =>
                unit.out # Unstuff(SubSeq(unit.frame, 2, p - 1))
                           \o Unstuff(SubSeq(unit.frame, p + 1, Len(unit.frame) - 1))

\* the frame stands between two delimiters and an FRAME_ESC that escapes
\* nothing comes right before the closing one
EndsInEscape(frame) ==
    /\ Len(frame) >= 3
    /\ frame[1] = FRAME_FLAG
    /\ frame[Len(frame)] = FRAME_FLAG
    /\ frame[Len(frame) - 1] = FRAME_ESC
    /\ Pending(frame, Len(frame) - 1)

\* C15: a frame that ends while an escape is pending (an unescaped FRAME_ESC
\* right before the closing FRAME_FLAG) is rejected as malformed: __unpackFrame
\* returns no message for it and reports it, and never gives a message with
\* the closing delimiter taken as data.
C15_DanglingEscapeRejected ==
    (unit.op = "unframe" /\ unit.stage = "unframed" /\ EndsInEscape(unit.frame)) =>
        /\ unit.out = <<>>
        /\ recvMessageQueue = <<InvalidFrame>>

\* C16: __unpackFrame, handed a byte string whose first byte or whose last
\* byte is not FRAME_FLAG (the empty string included), returns the empty
\* message and puts "Invalid" on recvMessageQueue.
C16_UnframedInputRejected ==
    (/\ unit.op = "unframe" /\ unit.stage = "unframed"
     /\ \/ unit.frame = <<>>
        \/ Head(unit.frame) # FRAME_FLAG
        \/ unit.frame[Len(unit.frame)] # FRAME_FLAG) =>
        /\ unit.out = <<>>
        /\ recvMessageQueue = <<InvalidFrame>>

\* a string that opens with the delimiter and does not close with it
C16_Witness ==
    /\ unit.op = "unframe" /\ unit.stage = "unframed"
    /\ unit.frame = <<FRAME_FLAG, 65, FRAME_ESC, 65>>
    /\ unit.out = <<>>
    /\ recvMessageQueue = <<InvalidFrame>>

\* C17: for a record packed by __packMessage, whichever single bit of its 18
\* bytes is inverted (the checksum field included), __unpackMessage puts the
\* checksum-failure rejection on recvMessageQueue and no decoded record.
C17_OneBitFlipIsRejected ==
    (unit.op = "flip" /\ unit.stage = "unpacked") =>
        recvMessageQueue = <<ChecksumFailed>>

\* the highest bit of the checksum field was inverted
C17_Witness ==
    /\ unit.op = "flip" /\ unit.stage = "unpacked"
    /\ unit.bit = 8 * MESSAGE_SIZE - 1
    /\ unit.args[1] = FRAME_ESC
    /\ recvMessageQueue = <<ChecksumFailed>>

\* str is what fills the first width places of the string h from place from
\* on, and spaces fill the rest of them
PaddedAt(h, from, width, str) ==
    \A i \in 1..width : h[from + i] = IF i <= Len(str) THEN str[i] ELSE " "

\* C18: every string the legacy sendCommand(command, data) hands on for
\* sending has exactly commandSize + dataSize characters, the command
\* left-justified and space-padded in the first commandSize of them and the
\* data in the other dataSize; when the command is longer than commandSize or
\* the data longer than dataSize nothing is handed on.
C18_LegacyStringIsFixedWidth ==
    (unit.op = "legacy" /\ unit.stage = "done") =>
        /\ \A k \in 1..Len(unit.handed) :
              /\ Len(unit.handed[k]) = commandSize + dataSize
              /\ PaddedAt(unit.handed[k], 0, commandSize, unit.command)
              /\ PaddedAt(unit.handed[k], commandSize, dataSize, unit.data)
        /\ (Len(unit.command) > commandSize \/ Len(unit.data) > dataSize) =>
              unit.handed = <<>>
        /\ (Len(unit.command) <= commandSize /\ Len(unit.data) <= dataSize) =>
              Len(unit.handed) = 1

\* a one-letter command with three digits of data
C18_Witness ==
    /\ unit.op = "legacy" /\ unit.stage = "done"
    /\ unit.command = <<"W">>
    /\ unit.data = <<"5", "5", "5">>
    /\ unit.handed = << <<"W", " ", " ", " ", "5", "5", "5",
                          " ", " ", " ", " ", " ", " ", " ", " ", " ">> >>

\* C19: a read that returns no byte leaves the receiver as it was, whatever
\* its state: the message buffer, the start-of-frame flag and the
\* pending-escape flag are the same after the step.
C19_EmptyReadChangesNothing ==
    [][(pc = "reading" /\ portOpen /\ portOpen' /\ serialIn' = serialIn) =>
          recvLocals' = recvLocals]_vars

\* the step reads a byte from the port
ReadsAByte ==
    /\ pc = "reading" /\ portOpen /\ portOpen'
    /\ serialIn # <<>>
    /\ serialIn' = Tail(serialIn)

\* C20: while an escape is pending, the byte received next, whatever its
\* value (FRAME_FLAG and FRAME_ESC included), is appended to the message as it
\* is, does not end the frame and clears the pending escape; the FRAME_ESC
\* that opened the escape sequence is not appended.
C20_EscapedByteIsData ==
    [][ReadsAByte =>
          /\ recvLocals.foundEscFlag =>
                /\ recvLocals'.message = Append(recvLocals.message, Head(serialIn))
                /\ ~recvLocals'.foundEscFlag
                /\ recvLocals'.foundStartOfFrame
                /\ pc' = "reading"
                /\ recvMessageQueue' = recvMessageQueue
                /\ frames' = frames
          /\ (/\ recvLocals.foundStartOfFrame /\ ~recvLocals.foundEscFlag
              /\ Head(serialIn) = FRAME_ESC) =>
                /\ recvLocals'.message = recvLocals.message
                /\ recvLocals'.foundEscFlag]_vars

\* an escaped delimiter and an escaped escape have both become data and the
\* frame is still open
C20_Witness ==
    /\ pc = "reading"
    /\ recvLocals.message = <<FRAME_FLAG, FRAME_ESC>>
    /\ ~recvLocals.foundEscFlag
    /\ serialIn = <<>>
    /\ frames = <<>>

\* ------------------------------------------------------------ C21 .. C23
\* C21: while isConnected is False a call of sendMessage or of recvMessage
\* has no effect: sendMessage leaves the message counter as it is and writes
\* nothing to the port, recvMessage reads nothing from the port, does not
\* enter its loop and puts nothing on recvMessageQueue.
C21_NotConnectedNoEffect ==
    [][(~isConnected /\ (sendMessage \/ recvMessage)) =>
          /\ lastMessageID' = lastMessageID
          /\ serialIn' = serialIn
          /\ sent' = sent
          /\ recvMessageQueue' = recvMessageQueue
          /\ frames' = frames
          /\ pc' = "idle"]_vars

\* initialize has left the controller unconnected after a frame was written:
\* the counter stands at 1 and the bytes of the frame wait on the line, where
\* both calls are made and change nothing
C21_Witness ==
    /\ ~isConnected
    /\ pc = "idle"
    /\ lastMessageID = 1
    /\ Len(sent) = 1
    /\ serialIn = packFrame(sent[1])
    /\ recvMessageQueue = <<>>
    /\ ENABLED sendMessage
    /\ ENABLED recvMessage

\* the stream the port delivers is __packFrame(M) for some byte string M
\* (then M is what __unpackFrame returns for it, C5)
StreamIsPackedFrame ==
    /\ unit.op = "recv"
    /\ packFrame(unpackFrame(unit.stream)) = unit.stream

\* C22: for every frame F = __packFrame(M), the message recvMessage has
\* accumulated when it has read F byte by byte to its closing delimiter is
\* the byte string __unpackFrame(F) returns.
C22_UnescapersAgree ==
    (StreamIsPackedFrame /\ Len(frames) >= 1) =>
        frames[1].message = unpackFrame(unit.stream)

\* C22 for the runs in which no read came back empty while an escape was
\* pending
C22_AgreeWithoutEmptyReads ==
    (StreamIsPackedFrame /\ Len(frames) >= 1 /\ ~escLost) =>
        frames[1].message = unpackFrame(unit.stream)

\* what recvMessage has read of the stream so far
Consumed == SubSeq(unit.stream, 1, Len(unit.stream) - Len(serialIn))

\* the byte string holds a FRAME_FLAG and, later, a FRAME_FLAG that no
\* FRAME_ESC of the frame the first one opens escapes
HasFramePair(bytes) ==
    \E i \in 1..Len(bytes) :
        /\ bytes[i] = FRAME_FLAG
        /\ \A h \in 1..(i - 1) : bytes[h] # FRAME_FLAG
        /\ LET inFrame == SubSeq(bytes, i, Len(bytes))
           IN  \E j \in 2..Len(inFrame) : UnescapedFlagAt(inFrame, j)

\* C23: a recvMessage call on a connected controller returns, and puts
\* something on recvMessageQueue, only when the port has delivered a
\* FRAME_FLAG followed later by an unescaped FRAME_FLAG: before that closing
\* delimiter has been read the call has not returned and nothing is queued.
C23_ReturnsOnlyOnClosingDelimiter ==
    (unit.op = "recv" /\ (frames # <<>> \/ recvMessageQueue # <<>>)) =>
        HasFramePair(Consumed)

\* C23 for the runs in which no read came back empty while an escape was
\* pending
C23_OnlyOnClosingWithoutEmptyReads ==
    (unit.op = "recv" /\ ~escLost /\ (frames # <<>> \/ recvMessageQueue # <<>>)) =>
        HasFramePair(Consumed)

\* C23, the other direction for those runs: once a stream that holds such a
\* pair has been read to its end on an open port, the call has returned
C23_ReturnsWithoutEmptyReads ==
    (/\ unit.op = "recv" /\ ~escLost /\ portOpen /\ serialIn = <<>>
     /\ HasFramePair(unit.stream)) =>
        frames # <<>>
====
